---- MODULE Spec2Model ----
(***************************************************************************)
(* Peak-level clustering and alert deduplication of the Bybit peaks bot    *)
(* (src/main.py): local_extrema, cluster_levels, find_peak_levels and the  *)
(* repeating alert_job with its process-wide _last_alert_signature.        *)
(*                                                                         *)
(* Numbers.  Prices are Python floats; here a price is an integer number   *)
(* of 1/4000 units, so that every price with three decimals and every      *)
(* mean of two such prices (statistics.median of an even-sized group) is   *)
(* exact.  Relative tolerances are per-mille integers (0.008 is 8) and a   *)
(* comparison |x - ref| / ref <= eps is decided by cross-multiplication.   *)
(* Rounded prices (round(p, 2)) are integers in hundredths.                *)
(***************************************************************************)
EXTENDS Integers, Sequences, FiniteSets, TLC

VARIABLES
    last_alert_signature, \* the global _last_alert_signature
    job,                  \* per alert_job run: position and local variables
    last_run,             \* outcome of the most recent finished run
    sink,                 \* the most recent alert the chat accepted
    ex_kl, ex_res,        \* local_extrema: argument and returned value
    cl_values, cl_eps, cl_res, cl_best, \* cluster_levels: arguments, result
    cl_again,             \* cluster_levels applied to the medians of cl_res
    rs_feed, rs_res,      \* find_peak_levels: the exchange's answer, result
    bal_user, bal_wallet, bal_res, \* get_usdt_balance_for: row, answers, result
    acl, users,           \* the tables acl and users of users.db
    cmd                   \* the command handled last and what it did

varsJob == <<last_alert_signature, job, last_run, sink>>
varsExtrema == <<ex_kl, ex_res>>
varsCluster == <<cl_values, cl_eps, cl_res, cl_best, cl_again>>
varsResolve == <<rs_feed, rs_res>>
varsBalance == <<bal_user, bal_wallet, bal_res>>
varsBot == <<acl, users, cmd>>
varsPure == <<varsExtrema, varsCluster, varsResolve, varsBalance>>
vars == <<last_alert_signature, job, last_run, sink,
          ex_kl, ex_res, cl_values, cl_eps, cl_res, cl_best, cl_again,
          rs_feed, rs_res, bal_user, bal_wallet, bal_res, acl, users, cmd>>

----------------------------------------------------------------------------
(* Values *)

\* Python None; an optional float is None or <<v>>.
None == <<>>
Some(v) == <<v>>

\* whole.thousandths as a price, e.g. Price(100, 4) is 100.004
Price(whole, thousandths) == 4000 * whole + 4 * thousandths

\* one hundredth (0.01) in price units
Cent == Price(0, 10)

Abs(x) == IF x < 0 THEN -x ELSE x

\* Python truthiness of an optional float: None and 0.0 are falsy
Truthy(opt) == opt # None /\ opt[1] # 0

\* the expression (opt or 0)
OrZero(opt) == IF Truthy(opt) THEN opt[1] ELSE 0

\* abs(x - ref) / ref <= permille / 1000, for ref # 0
RelWithin(x, ref, permille) ==
    IF ref > 0
    THEN Abs(x - ref) * 1000 <= permille * ref
    ELSE Abs(x - ref) * 1000 >= permille * ref

\* sequences over S of length 0..n
SeqsUpTo(S, n) == UNION {[1..k -> S] : k \in 0..n}

\* stable insertion of the pair x = <<key, item>> into s, ascending by key,
\* after the pairs of equal key
RECURSIVE InsertByKey(_, _)
InsertByKey(s, x) ==
    IF s = <<>> THEN <<x>>
    ELSE IF s[Len(s)][1] <= x[1] THEN Append(s, x)
    ELSE Append(InsertByKey(SubSeq(s, 1, Len(s) - 1), x), s[Len(s)])

\* stable ascending sort of a sequence of <<key, item>> pairs by key
RECURSIVE SortByKey(_)
SortByKey(s) ==
    IF s = <<>> THEN <<>>
    ELSE InsertByKey(SortByKey(SubSeq(s, 1, Len(s) - 1)), s[Len(s)])

\* the items of a sequence of <<key, item>> pairs
Items(s) == [i \in 1..Len(s) |-> s[i][2]]

----------------------------------------------------------------------------
(* Configuration (module level of main.py) *)

\* EPS_PCT = 0.008, in per-mille
EPS_PCT == 8

\* ALERT_PCT = 0.002, in per-mille
ALERT_PCT == 2

\* TELEGRAM_CHAT_ID of the owner; the process refuses to start without one
TG_CHAT_ID == 1

----------------------------------------------------------------------------
(* Analytics helpers *)

\* fetch_klines: the parsed items of the exchange's answer, sorted by ts.
\* An item is [ts, high, low, close] (open, volume, turnover are never read).
fetch_klines(raw) ==
    Items(SortByKey([i \in 1..Len(raw) |-> <<raw[i].ts, raw[i]>>]))

\* slip: strict comparisons, a plateau is no extremum
IsLocalLow_strict(kl, i) ==
    kl[i].low < kl[i - 1].low /\ kl[i].low < kl[i + 1].low

\* the two tests of the loop body of local_extrema, at 1-based index i
IsLocalLow(kl, i) ==
    kl[i].low <= kl[i - 1].low /\ kl[i].low <= kl[i + 1].low

IsLocalHigh(kl, i) ==
    kl[i].high >= kl[i - 1].high /\ kl[i].high >= kl[i + 1].high

\* first index of range(1, len(kl) - 1), 1-based
ExtremaFirst(kl) == 2

\* last index of range(1, len(kl) - 1), 1-based
ExtremaLast(kl) == Len(kl) - 1

\* for i in range(1, len(kl) - 1): ... ; returns <<lows, highs>>
RECURSIVE ExtremaLoop(_, _, _, _)
ExtremaLoop(kl, i, lows, highs) ==
    IF i > ExtremaLast(kl) THEN <<lows, highs>>
    ELSE ExtremaLoop(kl, i + 1,
            IF IsLocalLow(kl, i) THEN Append(lows, kl[i].low) ELSE lows,
            IF IsLocalHigh(kl, i) THEN Append(highs, kl[i].high) ELSE highs)

\* slip: the series is padded with copies of its end candles, so the first
\* and the last candle are classified too
local_extrema_padded(kl) ==
    IF kl = <<>> THEN <<<<>>, <<>>>>
    ELSE LET padded == <<kl[1]>> \o kl \o <<kl[Len(kl)]>>
         IN  ExtremaLoop(padded, 2, <<>>, <<>>)

local_extrema(kl) == ExtremaLoop(kl, ExtremaFirst(kl), <<>>, <<>>)

\* sorted(values)
Sorted(values) ==
    Items(SortByKey([i \in 1..Len(values) |-> <<values[i], values[i]>>]))

\* slip: median_low, the lower of the two middle elements of an even group
median_lowerMiddle(g) ==
    LET s == Sorted(g)
    IN  s[(Len(s) + 1) \div 2]

\* statistics.median: middle element, or the mean of the two middle ones
median(g) ==
    LET s == Sorted(g)
        n == Len(s)
    IN  IF n % 2 = 1 THEN s[(n + 1) \div 2]
        ELSE (s[n \div 2] + s[n \div 2 + 1]) \div 2

\* slip: the first member of the cluster is the anchor
ClusterRef_first(cluster) == cluster[1]

\* ref = clusters[-1][-1]
ClusterRef(cluster) == cluster[Len(cluster)]

\* abs(x - ref) / ref <= eps_pct
JoinsCluster(x, ref, eps_pct) == RelWithin(x, ref, eps_pct)

\* for x in values[1:]: ... over the sorted values; a zero ref raises
\* ZeroDivisionError.  Returns [exc, clusters].
RECURSIVE ClusterLoop(_, _, _, _)
ClusterLoop(values, i, clusters, eps_pct) ==
    IF i > Len(values) THEN [exc |-> "none", clusters |-> clusters]
    ELSE LET n == Len(clusters)
             ref == ClusterRef(clusters[n])
             x == values[i]
         IN  IF ref = 0
             THEN [exc |-> "ZeroDivisionError", clusters |-> <<>>]
             ELSE IF JoinsCluster(x, ref, eps_pct)
             THEN ClusterLoop(values, i + 1,
                      [clusters EXCEPT ![n] = Append(@, x)], eps_pct)
             ELSE ClusterLoop(values, i + 1, Append(clusters, <<x>>), eps_pct)

\* slip: reverse=True forgotten, ascending by count
RankByCount_ascending(res) ==
    Items(SortByKey([i \in 1..Len(res) |-> <<res[i][2], res[i]>>]))

\* res.sort(key=lambda e: e[1], reverse=True): stable, by count descending
RankByCount(res) ==
    Items(SortByKey([i \in 1..Len(res) |-> <<0 - res[i][2], res[i]>>]))

\* slip: values = sorted(values) forgotten, the values are chained as given
cluster_levels_unsorted(values, eps_pct) ==
    IF values = <<>> THEN [exc |-> "none", res |-> <<>>]
    ELSE LET r == ClusterLoop(values, 2, << <<values[1]>> >>, eps_pct)
         IN  IF r.exc # "none" THEN [exc |-> r.exc, res |-> <<>>]
             ELSE [exc |-> "none",
                   res |-> RankByCount(
                       [k \in 1..Len(r.clusters) |->
                           <<median(r.clusters[k]), Len(r.clusters[k])>>])]

\* cluster_levels: [exc, res], res a list of <<median, count>>
cluster_levels(values, eps_pct) ==
    IF values = <<>> THEN [exc |-> "none", res |-> <<>>]
    ELSE LET sv == Sorted(values)
             r == ClusterLoop(sv, 2, << <<sv[1]>> >>, eps_pct)
         IN  IF r.exc # "none" THEN [exc |-> r.exc, res |-> <<>>]
             ELSE [exc |-> "none",
                   res |-> RankByCount(
                       [k \in 1..Len(r.clusters) |->
                           <<median(r.clusters[k]), Len(r.clusters[k])>>])]

\* slip: no level is reported as a level of price 0 and count 0
BestLevel_zero(clusters) ==
    IF clusters # <<>> THEN <<Some(clusters[1][1]), clusters[1][2]>>
    ELSE <<Some(0), 0>>

\* low_clusters[0] if low_clusters else (None, 0)
BestLevel(clusters) ==
    IF clusters # <<>> THEN <<Some(clusters[1][1]), clusters[1][2]>>
    ELSE <<None, 0>>

\* kl[-1]["close"] if kl else None
LastClose(kl) == IF kl # <<>> THEN Some(kl[Len(kl)].close) ELSE None

\* find_peak_levels on one answer of the exchange.  feed.ok = FALSE is a
\* request that raises; an exception of a callee is raised on.
find_peak_levels(feed, eps_pct) ==
    IF ~feed.ok
    THEN [exc |-> "FailedRequestError",
          min_level |-> <<None, 0>>, max_level |-> <<None, 0>>, price |-> None]
    ELSE LET kl == fetch_klines(feed.list)
             ex == local_extrema(kl)
             low_clusters == cluster_levels(ex[1], eps_pct)
             high_clusters == cluster_levels(ex[2], eps_pct)
         IN  IF low_clusters.exc # "none" \/ high_clusters.exc # "none"
             THEN [exc |-> "ZeroDivisionError",
                   min_level |-> <<None, 0>>, max_level |-> <<None, 0>>,
                   price |-> None]
             ELSE [exc |-> "none",
                   min_level |-> BestLevel(low_clusters.res),
                   max_level |-> BestLevel(high_clusters.res),
                   price |-> LastClose(kl)]

\* slip: truncation to two decimals instead of rounding
round2_truncate(p) == p \div Cent

\* round(p, 2) in hundredths: nearest, an exact tie to the even hundredth
round2(p) ==
    LET q == p \div Cent
        r == p % Cent
    IN  IF 2 * r < Cent THEN q
        ELSE IF 2 * r > Cent THEN q + 1
        ELSE IF q % 2 = 0 THEN q ELSE q + 1

\* the tuple built at lines 373-376
Signature(min_level, max_level) ==
    <<round2(OrZero(min_level[1])), min_level[2],
      round2(OrZero(max_level[1])), max_level[2]>>

\* slip: the distance is not divided by the level
Near_absolute(price, level) ==
    /\ Truthy(price)
    /\ Truthy(level[1])
    /\ Abs(price[1] - level[1][1]) * 1000 <= ALERT_PCT * Price(1, 0)

\* price and level[0] and abs(price - level[0]) / level[0] <= ALERT_PCT
Near(price, level) ==
    /\ Truthy(price)
    /\ Truthy(level[1])
    /\ RelWithin(price[1], level[1][1], ALERT_PCT)

----------------------------------------------------------------------------
(* Balance lookup *)

\* float(text) of a wallet balance as the exchange writes it: the number, or
\* None where float raises ValueError
FloatOf(text) ==
    IF text = "12.5" THEN Some(Price(12, 500))
    ELSE IF text = "0" THEN Some(0)
    ELSE None

\* next((c for c in coins if c.get("coin") == name), None)
RECURSIVE FirstCoin(_, _)
FirstCoin(coins, name) ==
    IF coins = <<>> THEN None
    ELSE IF coins[1].coin = name THEN Some(coins[1])
    ELSE FirstCoin(Tail(coins), name)

\* float(usdt.get("walletBalance", 0.0)): None where float raises
WalletBalance(usdt) ==
    IF usdt.walletBalance = None THEN Some(0)
    ELSE FloatOf(usdt.walletBalance[1])

\* slip: the spot account is asked first
AccountTypes_spotFirst == <<"SPOT", "UNIFIED", "CONTRACT">>

\* for acct in ("UNIFIED", "SPOT", "CONTRACT")
AccountTypes == <<"UNIFIED", "SPOT", "CONTRACT">>

\* the loop of get_usdt_balance_for from the i-th account type on; queried
\* lists the account types get_wallet_balance was called for.  An exception
\* of the call or of float is caught and the loop continues.
RECURSIVE BalanceLoop(_, _, _)
BalanceLoop(wallet, i, queried) ==
    IF i > Len(AccountTypes)
    THEN [exc |-> "none", result |-> None, queried |-> queried]
    ELSE LET acct == AccountTypes[i]
             r == wallet[acct]
             asked == Append(queried, acct)
             usdt == FirstCoin(r.list[1], "USDT")
         IN  IF r.raises # "none" THEN BalanceLoop(wallet, i + 1, asked)
             ELSE IF r.list = <<>> THEN BalanceLoop(wallet, i + 1, asked)
             ELSE IF usdt = None THEN BalanceLoop(wallet, i + 1, asked)
             ELSE IF WalletBalance(usdt[1]) = None
             THEN BalanceLoop(wallet, i + 1, asked)
             ELSE [exc |-> "none", result |-> WalletBalance(usdt[1]),
                   queried |-> asked]

\* get_usdt_balance_for: u is the row get_user found (None if there is none),
\* wallet the exchange's answer per account type
get_usdt_balance_for(u, wallet) ==
    IF u = None THEN [exc |-> "none", result |-> None, queried |-> <<>>]
    ELSE BalanceLoop(wallet, 1, <<>>)

----------------------------------------------------------------------------
(* Bounded inputs *)

\* longest candle series the exchange answers with
MaxCandles == 4

\* longest list of values handed to cluster_levels
MaxVals == 5

\* candles [low, high, close] the exchange may report
CandleSet ==
    { [low |-> Price(100, 20), high |-> Price(100, 50), close |-> Price(100, 0)],
      [low |-> Price(100, 4),  high |-> Price(110, 0),  close |-> Price(100, 0)],
      [low |-> Price(100, 2),  high |-> Price(110, 0),  close |-> Price(100, 0)],
      [low |-> Price(100, 6),  high |-> Price(110, 0),  close |-> Price(100, 0)],
      [low |-> Price(100, 10), high |-> Price(110, 0),  close |-> Price(100, 0)],
      [low |-> Price(99, 900), high |-> Price(110, 0),  close |-> Price(105, 0)],
      [low |-> 0,              high |-> Price(110, 0),  close |-> Price(100, 0)] }

\* a series of candles in time order, stamped with its positions
Stamped(cs) ==
    [i \in 1..Len(cs) |->
        [ts |-> i, low |-> cs[i].low, high |-> cs[i].high, close |-> cs[i].close]]

Reversed(s) == [i \in 1..Len(s) |-> s[Len(s) + 1 - i]]

\* time-ordered candle series
Series == {Stamped(cs) : cs \in SeqsUpTo(CandleSet, MaxCandles)}

\* answers of the exchange: a failed request, or a list, newest candle first
Feeds ==
    {[ok |-> FALSE, list |-> <<>>]}
    \cup {[ok |-> TRUE, list |-> Reversed(kl)] : kl \in Series}

\* what find_peak_levels can return or raise on these answers
Resolutions == {find_peak_levels(feed, EPS_PCT) : feed \in Feeds}

\* values handed to cluster_levels
ValuePools ==
    { {Price(100, 0), Price(100, 500), Price(101, 200)},
      {Price(100, 0), Price(100, 700), Price(101, 600)},
      {Price(10, 0), Price(10, 50), Price(20, 0), Price(20, 20)} }

ValueLists == UNION {SeqsUpTo(pool, MaxVals) : pool \in ValuePools}

\* tolerances handed to cluster_levels, per-mille
EpsChoices == {3, EPS_PCT}

----------------------------------------------------------------------------
(* local_extrema applied to one candle series *)

InitExtrema ==
    /\ ex_kl \in Series
    /\ ex_res = None
    /\ last_alert_signature = None
    /\ job = <<>>
    /\ last_run = <<>>
    /\ sink = None
    /\ cl_values = <<>>
    /\ cl_eps = EPS_PCT
    /\ cl_res = <<>>
    /\ cl_best = <<>>
    /\ cl_again = <<>>
    /\ rs_feed = <<>>
    /\ rs_res = <<>>
    /\ bal_user = <<>>
    /\ bal_wallet = <<>>
    /\ bal_res = <<>>
    /\ acl = <<>>
    /\ users = <<>>
    /\ cmd = <<>>

\* lows, highs = local_extrema(kl)
ExtremaCall ==
    /\ ex_res = None
    /\ ex_res' = local_extrema(ex_kl)
    /\ UNCHANGED <<ex_kl, varsJob, varsBot, varsCluster, varsResolve, varsBalance>>

NextExtrema == ExtremaCall

SpecExtrema == InitExtrema /\ [][NextExtrema]_vars

----------------------------------------------------------------------------
(* cluster_levels applied to one list of values *)

InitCluster ==
    /\ cl_values \in ValueLists
    /\ cl_eps \in EpsChoices
    /\ cl_res = [exc |-> "pending", res |-> <<>>]
    /\ cl_best = <<None, 0>>
    /\ last_alert_signature = None
    /\ job = <<>>
    /\ last_run = <<>>
    /\ sink = None
    /\ ex_kl = <<>>
    /\ ex_res = None
    /\ cl_again = [exc |-> "pending", res |-> <<>>]
    /\ rs_feed = <<>>
    /\ rs_res = <<>>
    /\ bal_user = <<>>
    /\ bal_wallet = <<>>
    /\ bal_res = <<>>
    /\ acl = <<>>
    /\ users = <<>>
    /\ cmd = <<>>

\* clusters = cluster_levels(values, eps_pct); best = clusters[0] if clusters
\* else (None, 0), as find_peak_levels takes it
ClusterCall ==
    /\ cl_res.exc = "pending"
    /\ cl_res' = cluster_levels(cl_values, cl_eps)
    /\ cl_best' = BestLevel(cl_res'.res)
    /\ UNCHANGED <<cl_values, cl_eps, cl_again, varsJob, varsBot,
                   varsExtrema, varsResolve, varsBalance>>

\* the medians of a list returned by cluster_levels, in the order returned
Medians(res) == [i \in 1..Len(res) |-> res[i][1]]

\* cluster_levels([m for m, _ in clusters], eps_pct): the function applied
\* again, with the same tolerance, to the medians it returned
ReclusterCall ==
    /\ cl_res.exc = "none"
    /\ cl_again.exc = "pending"
    /\ cl_again' = cluster_levels(Medians(cl_res.res), cl_eps)
    /\ UNCHANGED <<cl_values, cl_eps, cl_res, cl_best, varsJob, varsBot,
                   varsExtrema, varsResolve, varsBalance>>

NextCluster == ClusterCall \/ ReclusterCall

SpecCluster == InitCluster /\ [][NextCluster]_vars

----------------------------------------------------------------------------
(* find_peak_levels applied to one answer of the exchange *)

\* the candles of CandleSet and one whose low is a local low under them
\* while its high is below theirs
ResolveCandles ==
    CandleSet
    \cup {[low |-> Price(99, 900), high |-> Price(100, 50), close |-> Price(100, 0)]}

\* answers of the exchange: a failed request, or a list, newest candle first
ResolveFeeds ==
    {[ok |-> FALSE, list |-> <<>>]}
    \cup {[ok |-> TRUE, list |-> Reversed(Stamped(cs))] :
            cs \in SeqsUpTo(ResolveCandles, MaxCandles)}

\* find_peak_levels has not returned yet
PendingResolution ==
    [exc |-> "pending",
     min_level |-> <<None, 0>>, max_level |-> <<None, 0>>, price |-> None]

InitResolve ==
    /\ rs_feed \in ResolveFeeds
    /\ rs_res = PendingResolution
    /\ last_alert_signature = None
    /\ job = <<>>
    /\ last_run = <<>>
    /\ sink = None
    /\ ex_kl = <<>>
    /\ ex_res = None
    /\ cl_values = <<>>
    /\ cl_eps = EPS_PCT
    /\ cl_res = <<>>
    /\ cl_best = <<>>
    /\ cl_again = <<>>
    /\ bal_user = <<>>
    /\ bal_wallet = <<>>
    /\ bal_res = <<>>
    /\ acl = <<>>
    /\ users = <<>>
    /\ cmd = <<>>

\* min_level, max_level, price = find_peak_levels(SYMBOL, INTERVAL,
\* CANDLES_LIMIT, EPS_PCT)
ResolveCall ==
    /\ rs_res.exc = "pending"
    /\ rs_res' = find_peak_levels(rs_feed, EPS_PCT)
    /\ UNCHANGED <<rs_feed, varsJob, varsBot, varsExtrema, varsCluster,
                   varsBalance>>

NextResolve == ResolveCall

SpecResolve == InitResolve /\ [][NextResolve]_vars

----------------------------------------------------------------------------
(* get_usdt_balance_for applied to one stored row and one set of answers *)

\* a coin entry of a wallet answer; walletBalance is None where the key is
\* missing
Coin(name, balance) == [coin |-> name, walletBalance |-> balance]

\* what get_wallet_balance may do for one account type: raise, or answer
\* with a list of accounts, each a list of coins
WalletAnswers ==
    { [raises |-> "FailedRequestError", list |-> <<>>],
      [raises |-> "Exception", list |-> <<>>],
      [raises |-> "none", list |-> <<>>],
      [raises |-> "none", list |-> << <<Coin("BTC", Some("12.5"))>> >>],
      [raises |-> "none",
       list |-> << <<Coin("BTC", Some("0")), Coin("USDT", Some("12.5"))>> >>],
      [raises |-> "none", list |-> << <<Coin("USDT", Some("0"))>> >>],
      [raises |-> "none", list |-> << <<Coin("USDT", None)>> >>],
      [raises |-> "none", list |-> << <<Coin("USDT", Some(""))>> >>],
      [raises |-> "none",
       list |-> << <<Coin("BTC", Some("0"))>>, <<Coin("USDT", Some("12.5"))>> >>] }

Wallets == [{"UNIFIED", "SPOT", "CONTRACT"} -> WalletAnswers]

\* rows of the table users: api_key, api_secret, testnet
Credentials ==
    { [api_key |-> "K", api_secret |-> "S", testnet |-> TRUE],
      [api_key |-> "K", api_secret |-> "S", testnet |-> FALSE] }

\* get_usdt_balance_for has not returned yet
PendingBalance == [exc |-> "pending", result |-> None, queried |-> <<>>]

InitBalance ==
    /\ bal_user \in {None} \cup {Some(c) : c \in Credentials}
    /\ bal_wallet \in Wallets
    /\ bal_res = PendingBalance
    /\ last_alert_signature = None
    /\ job = <<>>
    /\ last_run = <<>>
    /\ sink = None
    /\ ex_kl = <<>>
    /\ ex_res = None
    /\ cl_values = <<>>
    /\ cl_eps = EPS_PCT
    /\ cl_res = <<>>
    /\ cl_best = <<>>
    /\ cl_again = <<>>
    /\ rs_feed = <<>>
    /\ rs_res = <<>>
    /\ acl = <<>>
    /\ users = <<>>
    /\ cmd = <<>>

\* usdt = get_usdt_balance_for(uid)
BalanceCall ==
    /\ bal_res.exc = "pending"
    /\ bal_res' = get_usdt_balance_for(bal_user, bal_wallet)
    /\ UNCHANGED <<bal_user, bal_wallet, varsJob, varsBot, varsExtrema,
                   varsCluster, varsResolve>>

NextBalance == BalanceCall

SpecBalance == InitBalance /\ [][NextBalance]_vars

----------------------------------------------------------------------------
(* alert_job, run by the job queue every PING_SECONDS *)

\* run instances of alert_job; the one repeating timer starts the first only
Runs == {1, 2}
Timer == {1}

\* a run that is not executing: no position, no locals
IdleJob ==
    [pc |-> "idle", before |-> None,
     min_level |-> <<None, 0>>, max_level |-> <<None, 0>>, price |-> None,
     signature |-> None, near_min |-> FALSE, near_max |-> FALSE,
     calls |-> <<>>]

\* what a finished run leaves behind for the observer
Finished(j, outcome, calls) ==
    [outcome |-> outcome, min_level |-> j.min_level, max_level |-> j.max_level,
     signature |-> j.signature, calls |-> calls]

\* slip: "signature is _last_alert_signature", never true of a fresh tuple
SameSignature_identity(signature, last) == FALSE

\* signature == _last_alert_signature
SameSignature(signature, last) == signature = last

Init ==
    /\ last_alert_signature = None
    /\ job = [t \in Runs |-> IdleJob]
    /\ last_run = Finished(IdleJob, "none", <<>>)
    /\ sink = None
    /\ ex_kl = <<>>
    /\ ex_res = None
    /\ cl_values = <<>>
    /\ cl_eps = EPS_PCT
    /\ cl_res = <<>>
    /\ cl_best = <<>>
    /\ cl_again = <<>>
    /\ rs_feed = <<>>
    /\ rs_res = <<>>
    /\ bal_user = <<>>
    /\ bal_wallet = <<>>
    /\ bal_res = <<>>
    /\ acl = <<>>
    /\ users = <<>>
    /\ cmd = <<>>

\* slip: a lock around the tick, a run starts only while no other is running
AlertResolveFrom_locked(t, resolutions) ==
    /\ \A u \in Runs : job[u].pc = "idle"
    /\ \E r \in resolutions :
        LET started == [IdleJob EXCEPT !.before = last_alert_signature]
            resolved == [started EXCEPT
                            !.min_level = r.min_level,
                            !.max_level = r.max_level,
                            !.price = r.price,
                            !.signature = Signature(r.min_level, r.max_level)]
        IN  IF r.exc # "none"
            THEN /\ job' = [job EXCEPT ![t] = [started EXCEPT !.pc = "except"]]
                 /\ UNCHANGED last_run
            ELSE IF SameSignature(resolved.signature, last_alert_signature)
            THEN /\ job' = [job EXCEPT ![t] = IdleJob]
                 /\ last_run' = Finished(resolved, "suppressed", <<>>)
            ELSE /\ job' = [job EXCEPT ![t] = [resolved EXCEPT !.pc = "send"]]
                 /\ UNCHANGED last_run
    /\ UNCHANGED <<last_alert_signature, sink, varsBot, varsPure>>

\* lines 372-378: resolve the levels, build the signature, compare.
\* A raise goes to the except clause; an equal signature returns.
\* resolutions is what find_peak_levels can return or raise.
AlertResolveFrom(t, resolutions) ==
    /\ job[t].pc = "idle"
    /\ \E r \in resolutions :
        LET started == [IdleJob EXCEPT !.before = last_alert_signature]
            resolved == [started EXCEPT
                            !.min_level = r.min_level,
                            !.max_level = r.max_level,
                            !.price = r.price,
                            !.signature = Signature(r.min_level, r.max_level)]
        IN  IF r.exc # "none"
            THEN /\ job' = [job EXCEPT ![t] = [started EXCEPT !.pc = "except"]]
                 /\ UNCHANGED last_run
            ELSE IF SameSignature(resolved.signature, last_alert_signature)
            THEN /\ job' = [job EXCEPT ![t] = IdleJob]
                 /\ last_run' = Finished(resolved, "suppressed", <<>>)
            ELSE /\ job' = [job EXCEPT ![t] = [resolved EXCEPT !.pc = "send"]]
                 /\ UNCHANGED last_run
    /\ UNCHANGED <<last_alert_signature, sink, varsBot, varsPure>>

AlertResolve(t) == AlertResolveFrom(t, Resolutions)

\* slip: the signature is stored before the alert is sent
AlertSend_storeFirst(t) ==
    /\ job[t].pc = "send"
    /\ last_alert_signature' = job[t].signature
    /\ \E ok \in BOOLEAN :
        IF ok
        THEN /\ sink' = Some([min_level |-> job[t].min_level,
                              max_level |-> job[t].max_level,
                              near_min |-> Near(job[t].price, job[t].min_level),
                              near_max |-> Near(job[t].price, job[t].max_level)])
             /\ job' = [job EXCEPT ![t].pc = "store",
                                   ![t].calls = Append(@, <<"alert", TRUE>>)]
        ELSE /\ job' = [job EXCEPT ![t].pc = "except",
                                   ![t].calls = Append(@, <<"alert", FALSE>>)]
             /\ UNCHANGED sink
    /\ UNCHANGED <<last_run, varsBot, varsPure>>

\* lines 380-393: the proximity flags, then context.bot.send_message, which
\* the chat accepts or which raises
AlertSend(t) ==
    /\ job[t].pc = "send"
    /\ LET near_min == Near(job[t].price, job[t].min_level)
           near_max == Near(job[t].price, job[t].max_level)
           flagged == [job[t] EXCEPT !.near_min = near_min, !.near_max = near_max]
       IN  \E ok \in BOOLEAN :
            IF ok
            THEN /\ sink' = Some([min_level |-> job[t].min_level,
                                  max_level |-> job[t].max_level,
                                  near_min |-> near_min,
                                  near_max |-> near_max])
                 /\ job' = [job EXCEPT ![t] =
                        [flagged EXCEPT !.pc = "store",
                                        !.calls = Append(@, <<"alert", TRUE>>)]]
            ELSE /\ job' = [job EXCEPT ![t] =
                        [flagged EXCEPT !.pc = "except",
                                        !.calls = Append(@, <<"alert", FALSE>>)]]
                 /\ UNCHANGED sink
    /\ UNCHANGED <<last_alert_signature, last_run, varsBot, varsPure>>

\* line 394: _last_alert_signature = signature, and the function returns
AlertStore(t) ==
    /\ job[t].pc = "store"
    /\ last_alert_signature' = job[t].signature
    /\ last_run' = Finished(job[t], "emitted", job[t].calls)
    /\ job' = [job EXCEPT ![t] = IdleJob]
    /\ UNCHANGED <<sink, varsBot, varsPure>>

\* slip: the except clause also keeps the candidate it failed to send
AlertExcept_keeps(t) ==
    /\ job[t].pc = "except"
    /\ last_alert_signature' = job[t].signature
    /\ \E ok \in BOOLEAN :
        last_run' = Finished(job[t], IF ok THEN "diagnosed" ELSE "raised",
                             Append(job[t].calls, <<"diag", ok>>))
    /\ job' = [job EXCEPT ![t] = IdleJob]
    /\ UNCHANGED <<sink, varsBot, varsPure>>

\* lines 395-397: the except clause sends the diagnostic, unguarded; if that
\* send raises too, the exception leaves alert_job
AlertExcept(t) ==
    /\ job[t].pc = "except"
    /\ IF TG_CHAT_ID # 0
       THEN \E ok \in BOOLEAN :
                last_run' = Finished(job[t],
                                IF ok THEN "diagnosed" ELSE "raised",
                                Append(job[t].calls, <<"diag", ok>>))
       ELSE last_run' = Finished(job[t], "silent", job[t].calls)
    /\ job' = [job EXCEPT ![t] = IdleJob]
    /\ UNCHANGED <<last_alert_signature, sink, varsBot, varsPure>>

Next ==
    \E t \in Timer :
        \/ AlertResolve(t)
        \/ AlertSend(t)
        \/ AlertStore(t)
        \/ AlertExcept(t)

Spec == Init /\ [][Next]_vars

----------------------------------------------------------------------------
(* users.db: the tables acl and users.  A table is a function from user ids *)
(* to None (no row) or Some(row).                                           *)

\* Telegram users who write to the bot: the owner of TG_CHAT_ID and another
UserIds == {TG_CHAT_ID, 2}

\* a users.db that was just created
EmptyTable == [u \in UserIds |-> None]

\* INSERT OR IGNORE INTO acl(user_id, role) VALUES(TG_CHAT_ID, 'admin')
db_init(table) ==
    IF table[TG_CHAT_ID] = None
    THEN [table EXCEPT ![TG_CHAT_ID] = Some("admin")]
    ELSE table

\* REPLACE INTO users; strip() leaves a command argument as it is, since
\* arguments are split at white space
save_user(table, user_id, api_key, api_secret, testnet) ==
    [table EXCEPT ![user_id] =
        Some([api_key |-> api_key, api_secret |-> api_secret,
              testnet |-> testnet])]

get_user(table, user_id) == table[user_id]

\* REPLACE INTO acl(user_id, role)
allow_user(table, user_id, role) == [table EXCEPT ![user_id] = Some(role)]

\* DELETE FROM acl WHERE user_id=?
deny_user(table, user_id) == [table EXCEPT ![user_id] = None]

\* row[0] if row else ""
get_role(table, user_id) ==
    IF table[user_id] # None THEN table[user_id][1] ELSE ""

\* slip: any row in acl counts as an administrator's
is_admin_anyRole(table, user_id) == get_role(table, user_id) # ""

is_admin(table, user_id) == get_role(table, user_id) = "admin"

is_allowed(table, user_id) == get_role(table, user_id) \in {"user", "admin"}

----------------------------------------------------------------------------
(* Command handlers.  cmd records the command handled last: its name, the   *)
(* sender, the reply sent with reply_text, the exception that left the      *)
(* handler, what on_error sent for it, what the handler looked up, and, in  *)
(* "after", how the last finished run of alert_job had ended by then.       *)

\* int(text) of a command argument: None where int raises ValueError
IntOf(text) ==
    IF text = "1" THEN Some(1)
    ELSE IF text = "2" THEN Some(2)
    ELSE None

\* text.lower()
Lower(text) == IF text = "LIVE" THEN "live" ELSE text

\* context.args of /allow and /deny
AclArgs == {<<>>, <<"1">>, <<"2">>, <<"x">>}

\* context.args of /link
LinkArgs ==
    {<<>>, <<"K">>, <<"K", "S">>, <<"K", "S", "live">>, <<"K", "S", "LIVE">>,
     <<"K", "S", "demo">>}

\* answers of the exchange to the candle request of a tick or a query: a
\* failed request, one local low (100.004, or 100.01), and two local lows of
\* price 0
BotSeries ==
    LET c(thousandths) == [low |-> Price(100, thousandths),
                           high |-> Price(110, 0), close |-> Price(100, 0)]
        z == [low |-> 0, high |-> Price(110, 0), close |-> Price(100, 0)]
    IN  { <<c(10), c(4), c(10)>>,
          <<c(20), c(10), c(20)>>,
          <<z, z, z, z>> }

BotFeeds ==
    {[ok |-> FALSE, list |-> <<>>]}
    \cup {[ok |-> TRUE, list |-> Reversed(Stamped(cs))] : cs \in BotSeries}

BotResolutions == {find_peak_levels(feed, EPS_PCT) : feed \in BotFeeds}

\* what get_usdt_balance_for can return for a user with a row in users, and
\* for one without
LinkedLookups ==
    {get_usdt_balance_for(Some(c), w) : c \in Credentials, w \in Wallets}

UnlinkedLookups == {get_usdt_balance_for(None, w) : w \in Wallets}

\* a handled command that replied and did nothing else
Handled(name, uid, reply) ==
    [name |-> name, uid |-> uid, reply |-> reply, exc |-> "none",
     diag |-> <<>>, levels |-> <<>>, queried |-> <<>>, figure |-> None,
     shown |-> <<>>, after |-> last_run.outcome]

\* on_error, which the dispatcher calls with the exception that left a
\* handler: one message to TG_CHAT_ID, which the chat accepts or not
on_error(ok) == IF TG_CHAT_ID # 0 THEN << <<"diag", ok>> >> ELSE <<>>

\* a handler that an exception left: no reply, and on_error ran
RaisedIn(name, uid, exc, ok) ==
    [Handled(name, uid, "") EXCEPT !.exc = exc, !.diag = on_error(ok)]

cmd_start(uid) ==
    /\ cmd' = Handled("start", uid, "help")
    /\ UNCHANGED <<acl, users, varsJob, varsPure>>

\* slip: a query remembers the signature of the levels it showed
cmd_now_stores(uid) ==
    /\ \E r \in BotResolutions :
        IF r.exc # "none"
        THEN /\ \E ok \in BOOLEAN : cmd' = RaisedIn("now", uid, r.exc, ok)
             /\ UNCHANGED last_alert_signature
        ELSE /\ cmd' = [Handled("now", uid, "levels") EXCEPT
                            !.levels = <<r.min_level, r.max_level, r.price>>]
             /\ last_alert_signature' = Signature(r.min_level, r.max_level)
    /\ UNCHANGED <<acl, users, job, last_run, sink, varsPure>>

\* cmd_now: find_peak_levels, not guarded, then the reply
cmd_now(uid) ==
    /\ \E r \in BotResolutions :
        IF r.exc # "none"
        THEN \E ok \in BOOLEAN : cmd' = RaisedIn("now", uid, r.exc, ok)
        ELSE cmd' = [Handled("now", uid, "levels") EXCEPT
                        !.levels = <<r.min_level, r.max_level, r.price>>]
    /\ UNCHANGED <<acl, users, varsJob, varsPure>>

\* cmd_peaks: find_peak_levels, not guarded, then the reply
cmd_peaks(uid) ==
    /\ \E r \in BotResolutions :
        IF r.exc # "none"
        THEN \E ok \in BOOLEAN : cmd' = RaisedIn("peaks", uid, r.exc, ok)
        ELSE cmd' = [Handled("peaks", uid, "levels") EXCEPT
                        !.levels = <<r.min_level, r.max_level>>]
    /\ UNCHANGED <<acl, users, varsJob, varsPure>>

\* cmd_me: role (or "none"), access, and whether keys are stored
cmd_me(uid) ==
    /\ LET u == get_user(users, uid)
           role == IF get_role(acl, uid) # "" THEN get_role(acl, uid) ELSE "none"
           allowed == IF is_allowed(acl, uid) THEN "yes" ELSE "no"
           keys == IF u = None THEN "no keys"
                   ELSE IF u[1].testnet THEN "TESTNET" ELSE "LIVE"
       IN  cmd' = [Handled("me", uid, "status") EXCEPT
                      !.shown = <<keys, allowed, role>>]
    /\ UNCHANGED <<acl, users, varsJob, varsPure>>

\* slip: the access check is left out
cmd_balance_unchecked(uid) ==
    /\ \E out \in (IF get_user(users, uid) = None
                    THEN UnlinkedLookups ELSE LinkedLookups) :
            IF out.result = None
            THEN cmd' = [Handled("balance", uid, "no keys") EXCEPT
                            !.queried = out.queried]
            ELSE cmd' = [Handled("balance", uid, "balance") EXCEPT
                            !.queried = out.queried,
                            !.figure = out.result]
    /\ UNCHANGED <<acl, users, varsJob, varsPure>>

\* cmd_balance: refusal without access, else the lookup and its figure
cmd_balance(uid) ==
    /\ IF ~is_allowed(acl, uid)
       THEN cmd' = Handled("balance", uid, "refused")
       ELSE \E out \in (IF get_user(users, uid) = None
                         THEN UnlinkedLookups ELSE LinkedLookups) :
                IF out.result = None
                THEN cmd' = [Handled("balance", uid, "no keys") EXCEPT
                                !.queried = out.queried]
                ELSE cmd' = [Handled("balance", uid, "balance") EXCEPT
                                !.queried = out.queried,
                                !.figure = out.result]
    /\ UNCHANGED <<acl, users, varsJob, varsPure>>

\* cmd_link: refusal without access, the format without two arguments,
\* else the keys are stored; the mode is "testnet" unless the third
\* argument, lower-cased, is "live"
cmd_link(uid, args) ==
    /\ IF ~is_allowed(acl, uid)
       THEN /\ cmd' = Handled("link", uid, "refused")
            /\ UNCHANGED users
       ELSE IF Len(args) < 2
       THEN /\ cmd' = Handled("link", uid, "format")
            /\ UNCHANGED users
       ELSE LET mode == IF Len(args) >= 3 THEN Lower(args[3]) ELSE "testnet"
                testnet == mode # "live"
            IN  /\ users' = save_user(users, uid, args[1], args[2], testnet)
                /\ cmd' = [Handled("link", uid, "saved") EXCEPT
                               !.shown = <<IF testnet THEN "TESTNET" ELSE "LIVE">>]
    /\ UNCHANGED <<acl, varsJob, varsPure>>

\* cmd_unlink: DELETE FROM users WHERE user_id=?, no access check
cmd_unlink(uid) ==
    /\ users' = [users EXCEPT ![uid] = None]
    /\ cmd' = Handled("unlink", uid, "removed")
    /\ UNCHANGED <<acl, varsJob, varsPure>>

\* cmd_allow: refusal unless the sender is an administrator, the format
\* without an argument, "invalid" where int raises, else the role 'user'
\* is written for the named user
cmd_allow(uid, args) ==
    /\ IF ~is_admin(acl, uid)
       THEN /\ cmd' = Handled("allow", uid, "refused")
            /\ UNCHANGED acl
       ELSE IF args = <<>>
       THEN /\ cmd' = Handled("allow", uid, "format")
            /\ UNCHANGED acl
       ELSE IF IntOf(args[1]) = None
       THEN /\ cmd' = Handled("allow", uid, "invalid")
            /\ UNCHANGED acl
       ELSE /\ acl' = allow_user(acl, IntOf(args[1])[1], "user")
            /\ cmd' = [Handled("allow", uid, "granted") EXCEPT
                           !.shown = <<args[1]>>]
    /\ UNCHANGED <<users, varsJob, varsPure>>

\* cmd_deny: as cmd_allow, but the row of the named user is deleted
cmd_deny(uid, args) ==
    /\ IF ~is_admin(acl, uid)
       THEN /\ cmd' = Handled("deny", uid, "refused")
            /\ UNCHANGED acl
       ELSE IF args = <<>>
       THEN /\ cmd' = Handled("deny", uid, "format")
            /\ UNCHANGED acl
       ELSE IF IntOf(args[1]) = None
       THEN /\ cmd' = Handled("deny", uid, "invalid")
            /\ UNCHANGED acl
       ELSE /\ acl' = deny_user(acl, IntOf(args[1])[1])
            /\ cmd' = [Handled("deny", uid, "removed") EXCEPT
                           !.shown = <<args[1]>>]
    /\ UNCHANGED <<users, varsJob, varsPure>>

\* main of a new process on the users.db the last one left: db_init, and the
\* module's globals and the job queue start afresh; the chat keeps what it
\* was sent
Restart ==
    /\ acl' = db_init(acl)
    /\ cmd' = [Handled("main", 0, "") EXCEPT !.after = "none"]
    /\ last_alert_signature' = None
    /\ job' = [t \in Runs |-> IdleJob]
    /\ last_run' = Finished(IdleJob, "none", <<>>)
    /\ UNCHANGED <<users, sink, varsPure>>

\* the first start, on a users.db that does not exist yet
InitAcl ==
    /\ acl = db_init(EmptyTable)
    /\ users = EmptyTable
    /\ last_alert_signature = None
    /\ job = [t \in Runs |-> IdleJob]
    /\ last_run = Finished(IdleJob, "none", <<>>)
    /\ cmd = Handled("main", 0, "")
    /\ sink = None
    /\ ex_kl = <<>>
    /\ ex_res = None
    /\ cl_values = <<>>
    /\ cl_eps = EPS_PCT
    /\ cl_res = <<>>
    /\ cl_best = <<>>
    /\ cl_again = <<>>
    /\ rs_feed = <<>>
    /\ rs_res = <<>>
    /\ bal_user = <<>>
    /\ bal_wallet = <<>>
    /\ bal_res = <<>>

\* the dispatcher hands one update of one of the senders to its handler
CommandFrom(senders) ==
    \E uid \in senders :
        \/ cmd_start(uid)
        \/ cmd_now(uid)
        \/ cmd_peaks(uid)
        \/ cmd_me(uid)
        \/ cmd_balance(uid)
        \/ \E args \in LinkArgs : cmd_link(uid, args)
        \/ cmd_unlink(uid)
        \/ \E args \in AclArgs : cmd_allow(uid, args)
        \/ \E args \in AclArgs : cmd_deny(uid, args)

Command == CommandFrom(UserIds)

NextAcl == Command \/ Restart

SpecAcl == InitAcl /\ [][NextAcl]_vars

----------------------------------------------------------------------------
(* The running bot: the dispatcher's commands and the job queue's ticks *)

\* one step of the run of alert_job the repeating timer started
TimerTick ==
    \E t \in Timer :
        \/ AlertResolveFrom(t, BotResolutions)
        \/ AlertSend(t)
        \/ AlertStore(t)
        \/ AlertExcept(t)

\* the senders of commands while the ticks run: the owner
BotSenders == {TG_CHAT_ID}

NextBot == CommandFrom(BotSenders) \/ Restart \/ TimerTick

SpecBot == InitAcl /\ [][NextBot]_vars

----------------------------------------------------------------------------
(* alert_job started again while a run of it has not returned: what a job   *)
(* queue without the one-run-at-a-time timer would allow                    *)

OverlappingTick ==
    \E t \in Runs :
        \/ AlertResolveFrom(t, BotResolutions)
        \/ AlertSend(t)
        \/ AlertStore(t)
        \/ AlertExcept(t)

NextOverlap == OverlappingTick

SpecOverlap == Init /\ [][NextOverlap]_vars

----------------------------------------------------------------------------
(* Observations shared by the statements about alert_job *)

\* run t, and no other, starts in this step: it leaves "idle", or it returns
\* at once
Resolves(t) ==
    /\ job[t].pc = "idle"
    /\ \A u \in Runs \ {t} : job'[u] = job[u]
    /\ (job'[t].pc # "idle" \/ last_run' # last_run)

\* after a step in which run t started: the levels it resolved and the
\* candidate signature it built (None when the resolution raised)
ResolvedMin(t) ==
    IF job'[t].pc = "idle" THEN last_run'.min_level ELSE job'[t].min_level

ResolvedMax(t) ==
    IF job'[t].pc = "idle" THEN last_run'.max_level ELSE job'[t].max_level

Candidate(t) ==
    IF job'[t].pc = "idle" THEN last_run'.signature ELSE job'[t].signature

\* run t returns in this step without having sent or stored anything
ReturnsSilently(t) ==
    /\ job'[t].pc = "idle"
    /\ last_run'.outcome = "suppressed"
    /\ last_run'.calls = <<>>
    /\ sink' = sink
    /\ last_alert_signature' = last_alert_signature

\* the candidate signature of the alert the chat accepted last
SentSignature ==
    IF sink = None THEN None
    ELSE Signature(sink[1].min_level, sink[1].max_level)

\* the run failed: it ended in the except clause
Failed(run) == run.outcome \in {"diagnosed", "raised", "silent"}

----------------------------------------------------------------------------
\* the two parts of C1: the suppressed step, and the state after an emission
C1_SuppressStep ==
    \A t \in Runs :
        (Resolves(t) /\ Candidate(t) # None
            /\ Candidate(t) = last_alert_signature)
        => ReturnsSilently(t)

C1_NoTwoEmissions ==
    \A t \in Runs :
        job[t].pc = "store"
        => ~(last_run.outcome = "emitted"
             /\ last_run.signature = job[t].signature)

\* C1: a tick whose candidate signature equals the stored signature emits no
\* alert and changes nothing; so of two consecutive ticks with the same
\* candidate signature at most one emits.
C1_Suppression == [][C1_SuppressStep]_vars /\ []C1_NoTwoEmissions

\* the tick after an emission resolved the same signature and was suppressed
C1_Witness ==
    /\ last_run.outcome = "suppressed"
    /\ last_alert_signature # None
    /\ last_run.signature = last_alert_signature
    /\ SentSignature = last_alert_signature

\* the two parts of C2: the stored value, and the steps that may change it
C2_StoredIsSent ==
    \/ last_alert_signature = SentSignature
    \/ \E t \in Runs : job[t].pc = "store" /\ job[t].signature = SentSignature

C2_SendThenStore ==
    \A t \in Runs :
        /\ (last_alert_signature' # last_alert_signature)
            => (\E u \in Runs :
                    /\ job[u].pc = "store"
                    /\ job[u].calls = << <<"alert", TRUE>> >>
                    /\ job[u].signature = SentSignature
                    /\ last_alert_signature' = job[u].signature)
        /\ (Resolves(t) /\ Candidate(t) # None
                /\ Candidate(t) # last_alert_signature)
            => (job'[t].pc = "send" /\ last_alert_signature' = last_alert_signature)

\* C2: the stored signature is absent or is the candidate of the alert the
\* chat accepted last; it changes only after that alert was accepted; and a
\* tick that resolves a candidate different from it goes on to send.
C2_LastSignature == []C2_StoredIsSent /\ [][C2_SendThenStore]_vars

\* the tick after a failed tick has sent its alert and is about to store it
C2_Witness ==
    /\ Failed(last_run)
    /\ job[1].pc = "store"
    /\ last_alert_signature # None
    /\ last_alert_signature # job[1].signature
    /\ SentSignature = job[1].signature

\* the two parts of C3: the step that ends a failing tick, and the states
\* during and after it
C3_FailStep ==
    \A t \in Runs :
        (job[t].pc = "except" /\ job'[t].pc = "idle")
        => /\ last_alert_signature' = job[t].before
           /\ Failed(last_run')
           /\ \E ok \in BOOLEAN :
                last_run'.calls = Append(job[t].calls, <<"diag", ok>>)

C3_Untouched ==
    /\ \A t \in Runs :
        job[t].pc = "except" => last_alert_signature = job[t].before
    /\ (Failed(last_run) /\ last_run.signature # None
            /\ \A t \in Runs : job[t].pc = "idle")
        => last_alert_signature # last_run.signature

\* C3: a failing tick leaves the stored signature as it was before the tick
\* and calls the chat with a diagnostic; the failed candidate is not stored,
\* so the same data is not suppressed later.
C3_FailedTick == [][C3_FailStep]_vars /\ []C3_Untouched

\* after an alert, a tick resolved a new candidate, its send raised and the
\* diagnostic went out
C3_Witness ==
    /\ last_run.outcome = "diagnosed"
    /\ last_run.calls = << <<"alert", FALSE>>, <<"diag", TRUE>> >>
    /\ last_alert_signature # None
    /\ last_alert_signature # last_run.signature

\* C4: whatever fails inside a tick, alert_job returns normally.
C4_NeverRaises == last_run.outcome # "raised"

\* the tick before emitted an alert with min representative 100.004; in this
\* step run t resolves min representative p, supports and max level as before
C5_Prior ==
    /\ last_run.outcome = "emitted"
    /\ sink # None
    /\ sink[1].min_level[1] = Some(Price(100, 4))

C5_Shift(t, p) ==
    /\ C5_Prior
    /\ Resolves(t)
    /\ ResolvedMin(t) = <<Some(p), sink[1].min_level[2]>>
    /\ ResolvedMax(t) = sink[1].max_level

C5_OriginalStep ==
    \A t \in Runs :
        /\ C5_Shift(t, Price(100, 6)) => ReturnsSilently(t)
        /\ C5_Shift(t, Price(100, 10)) => job'[t].pc = "send"

\* C5 as stated: after an alert with min representative 100.004, a tick with
\* min representative 100.006 (supports and max level unchanged) emits no
\* alert, and one with 100.01 does.
C5_Original == [][C5_OriginalStep]_vars

C5_RearmStep ==
    \A t \in Runs :
        /\ C5_Shift(t, Price(100, 2)) => ReturnsSilently(t)
        /\ C5_Shift(t, Price(100, 6)) => job'[t].pc = "send"
        /\ C5_Shift(t, Price(100, 10)) => job'[t].pc = "send"

\* C5, amended: after an alert with min representative 100.004, a tick with
\* min representative 100.002 (same two-decimal rounding, 100.00) emits no
\* alert; one with 100.006 (which rounds to 100.01) and one with 100.01 are
\* not suppressed and send an alert.
C5_Rearm == [][C5_RearmStep]_vars

\* the alert for 100.004 was accepted and the next tick, with 100.006 and the
\* same supports and max level, is sending its alert
C5_Witness ==
    /\ C5_Prior
    /\ job[1].pc = "send"
    /\ job[1].min_level = <<Some(Price(100, 6)), sink[1].min_level[2]>>
    /\ job[1].max_level = sink[1].max_level

\* the alert for 100.004 was accepted and the next tick, with 100.002, was
\* suppressed
C5_WitnessSilent ==
    /\ sink # None
    /\ sink[1].min_level[1] = Some(Price(100, 4))
    /\ last_run.outcome = "suppressed"
    /\ last_run.min_level = <<Some(Price(100, 2)), sink[1].min_level[2]>>
    /\ last_run.max_level = sink[1].max_level

\* the condition of C6 for one flag, and the example's levels
C6_Near(price, level) ==
    /\ price # None
    /\ level # None
    /\ level[1] > 0
    /\ Abs(price[1] - level[1]) * 1000 <= ALERT_PCT * level[1]

C6_Example(j) ==
    /\ j.price = Some(Price(100, 0))
    /\ j.min_level[1] = Some(Price(99, 900))
    /\ j.max_level[1] = Some(Price(110, 0))

\* C6: in every emitted alert nearMin holds iff price and min level exist
\* and |price - minLevel| / minLevel <= alertPct, and nearMax likewise with
\* the max level; price 100, min 99.9, max 110 gives nearMin and not nearMax.
C6_ProximityFlags ==
    \A t \in Runs :
        job[t].pc = "store"
        => /\ sink # None
           /\ sink[1].near_min = C6_Near(job[t].price, job[t].min_level[1])
           /\ sink[1].near_max = C6_Near(job[t].price, job[t].max_level[1])
           /\ sink[1].near_min = job[t].near_min
           /\ sink[1].near_max = job[t].near_max
           /\ C6_Example(job[t]) => (sink[1].near_min /\ ~sink[1].near_max)

\* the alert of the example was accepted: near the min, far from the max
C6_Witness ==
    /\ job[1].pc = "store"
    /\ C6_Example(job[1])
    /\ sink # None
    /\ sink[1].near_min
    /\ ~sink[1].near_max

\* an accepted alert carries both flags
C6_WitnessBoth ==
    /\ job[1].pc = "store"
    /\ sink # None
    /\ sink[1].near_min
    /\ sink[1].near_max

\* an accepted alert has no min level and no flag for it
C6_WitnessAbsent ==
    /\ job[1].pc = "store"
    /\ sink # None
    /\ job[1].price # None
    /\ job[1].min_level[1] = None
    /\ ~sink[1].near_min

----------------------------------------------------------------------------
(* Statements about local_extrema, under SpecExtrema *)

\* a is b with some positions left out
IsSubsequence(a, b) ==
    \E f \in [1..Len(a) -> 1..Len(b)] :
        /\ \A k \in 1..Len(a) : a[k] = b[f[k]]
        /\ \A k \in 1..Len(a) : \A l \in 1..Len(a) : k < l => f[k] < f[l]

\* the interior positions of a series, 1-based
Interior(kl) == 2..(Len(kl) - 1)

InteriorLows(kl) == [i \in 1..(IF Len(kl) < 3 THEN 0 ELSE Len(kl) - 2) |-> kl[i + 1].low]

InteriorHighs(kl) == [i \in 1..(IF Len(kl) < 3 THEN 0 ELSE Len(kl) - 2) |-> kl[i + 1].high]

\* C7: local_extrema reports only values of interior candles, each at most
\* once and in order, and nothing for fewer than three candles.
C7_InteriorOnly ==
    ex_res # None
    => /\ IsSubsequence(ex_res[1], InteriorLows(ex_kl))
       /\ IsSubsequence(ex_res[2], InteriorHighs(ex_kl))
       /\ Len(ex_kl) < 3 => ex_res = <<<<>>, <<>>>>

\* the first candle has the lowest low of the series; lows and highs were
\* reported, that low is not among them
C7_Witness ==
    /\ ex_res # None
    /\ Len(ex_kl) >= 4
    /\ ex_res[1] # <<>>
    /\ ex_res[2] # <<>>
    /\ \A i \in Interior(ex_kl) : ex_kl[1].low < ex_kl[i].low
    /\ \A k \in 1..Len(ex_res[1]) : ex_res[1][k] # ex_kl[1].low

\* the k-th smallest element of the set Q of positions
Kth(Q, k) == CHOOSE i \in Q : Cardinality({j \in Q : j < i}) = k - 1

LowPositions(kl) ==
    {i \in Interior(kl) :
        kl[i].low <= kl[i - 1].low /\ kl[i].low <= kl[i + 1].low}

HighPositions(kl) ==
    {i \in Interior(kl) :
        kl[i].high >= kl[i - 1].high /\ kl[i].high >= kl[i + 1].high}

\* C8: lows is exactly, in time order, the low of every interior candle whose
\* low is <= both neighbours' lows, highs likewise with >= on the highs; a
\* plateau gives one entry per qualifying candle.
C8_ExactExtrema ==
    ex_res # None
    => /\ Len(ex_res[1]) = Cardinality(LowPositions(ex_kl))
       /\ \A k \in 1..Len(ex_res[1]) :
            ex_res[1][k] = ex_kl[Kth(LowPositions(ex_kl), k)].low
       /\ Len(ex_res[2]) = Cardinality(HighPositions(ex_kl))
       /\ \A k \in 1..Len(ex_res[2]) :
            ex_res[2][k] = ex_kl[Kth(HighPositions(ex_kl), k)].high

\* two neighbouring interior candles with equal lows and equal highs are
\* both reported, each in both lists
C8_Witness ==
    /\ ex_res # None
    /\ Len(ex_kl) = 4
    /\ ex_kl[2].low = ex_kl[3].low
    /\ ex_kl[2].high = ex_kl[3].high
    /\ ex_res[1] = <<ex_kl[2].low, ex_kl[3].low>>
    /\ ex_res[2] = <<ex_kl[2].high, ex_kl[3].high>>

----------------------------------------------------------------------------
(* Statements about cluster_levels, under SpecCluster *)

\* positions of the sorted values that open a cluster: the first, and every
\* one farther than eps from its predecessor, the value added last
Opens(sv, eps) ==
    {i \in 1..Len(sv) :
        i = 1 \/ ~(Abs(sv[i] - sv[i - 1]) * 1000 <= eps * sv[i - 1])}

\* the run of sorted values that starts at the opening position i
RunFrom(sv, eps, i) ==
    LET later == {j \in Opens(sv, eps) : j > i}
        last == IF later = {} THEN Len(sv)
                ELSE (CHOOSE j \in later : \A k \in later : j <= k) - 1
    IN  SubSeq(sv, i, last)

\* how often the pair e occurs in the sequence s
Occurrences(s, e) == Cardinality({i \in 1..Len(s) : s[i] = e})

\* the <<median, count>> pairs of the chained runs, in ascending order
ChainedPairs(sv, eps) ==
    LET opens == Opens(sv, eps)
    IN  [k \in 1..Cardinality(opens) |->
            LET run == RunFrom(sv, eps, Kth(opens, k))
            IN  <<median(run), Len(run)>>]

\* C9: for positive values the clusters are the runs of the sorted values in
\* which each value is within eps of the value added before it; so
\* [100, 100.5, 101.2] is one cluster (100.5, 3) for eps 0.008 and three
\* singletons for eps 0.003.
C9_ChainMerge ==
    cl_res.exc # "pending"
    => /\ cl_res.exc = "none"
       /\ LET pairs == ChainedPairs(Sorted(cl_values), cl_eps)
          IN  /\ Len(cl_res.res) = Len(pairs)
              /\ \A k \in 1..Len(pairs) :
                    Occurrences(cl_res.res, pairs[k]) = Occurrences(pairs, pairs[k])
       /\ (cl_values = <<Price(100, 0), Price(100, 500), Price(101, 200)>>
           /\ cl_eps = EPS_PCT)
          => cl_res.res = << <<Price(100, 500), 3>> >>
       /\ (cl_values = <<Price(100, 0), Price(100, 500), Price(101, 200)>>
           /\ cl_eps = 3)
          => cl_res.res = << <<Price(100, 0), 1>>, <<Price(100, 500), 1>>,
                             <<Price(101, 200), 1>> >>

\* 101.2 is farther than eps from 100 and still in the one cluster
C9_Witness ==
    /\ cl_values = <<Price(100, 0), Price(100, 500), Price(101, 200)>>
    /\ cl_eps = EPS_PCT
    /\ Abs(Price(101, 200) - Price(100, 0)) * 1000 > cl_eps * Price(100, 0)
    /\ cl_res.exc = "none"
    /\ cl_res.res = << <<Price(100, 500), 3>> >>

\* the example of C10
C10_Example ==
    /\ cl_values = <<Price(10, 0), Price(10, 0), Price(10, 50),
                     Price(20, 0), Price(20, 20)>>
    /\ cl_eps = EPS_PCT

\* C10: the clusters come by support descending, clusters of equal support by
\* price ascending; the reported best level is the first one, of maximal
\* support; lows [10, 10, 10.05, 20, 20.02] with eps 0.008 give (10, 3) and
\* (20.01, 2), and (10, 3) is the best.
C10_RankedBest ==
    cl_res.exc # "pending"
    => LET res == cl_res.res
       IN  /\ \A i \in 1..Len(res) : \A j \in 1..Len(res) :
                i < j => \/ res[i][2] > res[j][2]
                         \/ res[i][2] = res[j][2] /\ res[i][1] < res[j][1]
           /\ res = <<>> => cl_best = <<None, 0>>
           /\ res # <<>> =>
                /\ cl_best = <<Some(res[1][1]), res[1][2]>>
                /\ \A i \in 1..Len(res) : res[i][2] <= cl_best[2]
           /\ C10_Example =>
                /\ res = << <<Price(10, 0), 3>>, <<Price(20, 10), 2>> >>
                /\ cl_best = <<Some(Price(10, 0)), 3>>

\* the example was clustered
C10_Witness ==
    /\ C10_Example
    /\ cl_res.exc = "none"
    /\ cl_best = <<Some(Price(10, 0)), 3>>

\* two clusters of equal support: the lower-priced one is the best
C10_WitnessTie ==
    /\ cl_res.exc = "none"
    /\ Len(cl_res.res) = 2
    /\ cl_res.res[1][2] = 2
    /\ cl_res.res[2][2] = 2
    /\ cl_best[1] = Some(cl_res.res[1][1])
    /\ cl_res.res[1][1] < cl_res.res[2][1]

\* C11: cluster_levels applied again, with the same eps, to the medians it
\* returned for a list of positive values gives one cluster of count 1 per
\* median: no two medians merge.
C11_Idempotent ==
    cl_again.exc # "pending"
    => /\ cl_again.exc = "none"
       /\ Len(cl_again.res) = Len(cl_res.res)
       /\ \A k \in 1..Len(cl_again.res) : cl_again.res[k][2] = 1
       /\ {cl_again.res[k][1] : k \in 1..Len(cl_again.res)}
            = {cl_res.res[k][1] : k \in 1..Len(cl_res.res)}

\* two clusters, one of them merged from several values, were clustered
\* again and stayed apart
C11_Witness ==
    /\ cl_again.exc = "none"
    /\ Len(cl_res.res) = 2
    /\ cl_res.res[1][2] >= 3
    /\ cl_again.res = << <<cl_res.res[2][1], 1>>, <<cl_res.res[1][1], 1>> >>

\* the returned clusters in ascending order of their representatives
C18_ByPrice ==
    Items(SortByKey([i \in 1..Len(cl_res.res) |-> <<cl_res.res[i][1], cl_res.res[i]>>]))

RECURSIVE C18_Support(_, _)
C18_Support(clusters, k) ==
    IF k = 0 THEN 0 ELSE clusters[k][2] + C18_Support(clusters, k - 1)

\* the members of the k-th cluster: the sorted input values that follow the
\* members of the clusters before it
C18_Members(k) ==
    LET before == C18_Support(C18_ByPrice, k - 1)
    IN  SubSeq(Sorted(cl_values), before + 1, before + C18_ByPrice[k][2])

\* m is the median of the ascending list g
C18_IsMedian(m, g) ==
    LET n == Len(g)
    IN  IF n % 2 = 1 THEN m = g[(n + 1) \div 2]
        ELSE 2 * m = g[n \div 2] + g[n \div 2 + 1]

\* C18: for a non-empty list of positive values every returned cluster has
\* support >= 1, the supports sum to the number of input values, and each
\* representative is the median of its members, between the smallest and
\* the largest of them.
C18_Partition ==
    (cl_res.exc # "pending" /\ cl_values # <<>>)
    => /\ cl_res.exc = "none"
       /\ cl_res.res # <<>>
       /\ \A k \in 1..Len(cl_res.res) : cl_res.res[k][2] >= 1
       /\ C18_Support(cl_res.res, Len(cl_res.res)) = Len(cl_values)
       /\ \A k \in 1..Len(C18_ByPrice) :
            LET g == C18_Members(k)
                m == C18_ByPrice[k][1]
            IN  /\ C18_IsMedian(m, g)
                /\ g[1] <= m
                /\ m <= g[Len(g)]

\* five values with a duplicate in two clusters; the representative of the
\* pair lies strictly between its two members
C18_Witness ==
    /\ cl_res.exc = "none"
    /\ Len(cl_values) = 5
    /\ Len(cl_res.res) = 2
    /\ cl_res.res[1][2] = 3
    /\ cl_res.res[2][2] = 2
    /\ C18_Members(2)[1] < cl_res.res[2][1]
    /\ cl_res.res[2][1] < C18_Members(2)[2]
    /\ \E i \in 1..5 : \E j \in 1..5 : i # j /\ cl_values[i] = cl_values[j]

----------------------------------------------------------------------------
(* Statements about find_peak_levels, under SpecResolve *)

\* the candles of the answer in time order, and the extrema among them
AnswerSeries == Reversed(rs_feed.list)

AnswerLows ==
    LET kl == AnswerSeries
        at == LowPositions(kl)
    IN  [k \in 1..Cardinality(at) |-> kl[Kth(at, k)].low]

AnswerHighs ==
    LET kl == AnswerSeries
        at == HighPositions(kl)
    IN  [k \in 1..Cardinality(at) |-> kl[Kth(at, k)].high]

\* the level reported for a non-empty list of extrema: the first cluster
ReportedNormally(level, extrema) ==
    LET clusters == cluster_levels(extrema, EPS_PCT)
    IN  /\ level[1] # None
        /\ level[2] >= 1
        /\ level = <<Some(clusters.res[1][1]), clusters.res[1][2]>>

\* an extremum of value 0, the one input on which cluster_levels can raise
ZeroExtremum ==
    \/ \E k \in 1..Len(AnswerLows) : AnswerLows[k] = 0
    \/ \E k \in 1..Len(AnswerHighs) : AnswerHighs[k] = 0

\* C12: find_peak_levels does not raise for missing data: with no lows the
\* min level is (absent, 0) and the max level is reported as usual, with no
\* highs likewise for the max level, and with no candles both levels and
\* the last close are absent.
C12_AbsentData ==
    (rs_res.exc # "pending" /\ rs_feed.ok)
    => /\ rs_res.exc # "none" => ZeroExtremum
       /\ (rs_res.exc = "none" /\ AnswerLows = <<>>)
            => /\ rs_res.min_level = <<None, 0>>
               /\ AnswerHighs # <<>>
                    => ReportedNormally(rs_res.max_level, AnswerHighs)
       /\ (rs_res.exc = "none" /\ AnswerHighs = <<>>)
            => /\ rs_res.max_level = <<None, 0>>
               /\ AnswerLows # <<>>
                    => ReportedNormally(rs_res.min_level, AnswerLows)
       /\ rs_feed.list = <<>>
            => rs_res = [exc |-> "none", min_level |-> <<None, 0>>,
                         max_level |-> <<None, 0>>, price |-> None]

\* no local high, one local low: the max level is absent, the min level and
\* the last close are there
C12_Witness ==
    /\ rs_res.exc = "none"
    /\ rs_feed.ok
    /\ AnswerHighs = <<>>
    /\ AnswerLows # <<>>
    /\ rs_res.max_level = <<None, 0>>
    /\ rs_res.min_level[1] # None
    /\ rs_res.price # None

\* no local low, some local high
C12_WitnessNoLows ==
    /\ rs_res.exc = "none"
    /\ rs_feed.ok
    /\ AnswerLows = <<>>
    /\ AnswerHighs # <<>>
    /\ rs_res.min_level = <<None, 0>>
    /\ rs_res.max_level[1] # None

\* the exchange answered with no candle at all
C12_WitnessEmpty ==
    /\ rs_feed.ok
    /\ rs_feed.list = <<>>
    /\ rs_res.exc = "none"
    /\ rs_res.price = None

----------------------------------------------------------------------------
(* Statements about get_usdt_balance_for, under SpecBalance *)

\* the order in which C16 says the account categories are tried
C16_Order == <<"UNIFIED", "SPOT", "CONTRACT">>

\* the first USDT entry of the first account of an answer
C16_Usdt(answer) ==
    LET coins == answer.list[1]
        k == CHOOSE i \in 1..Len(coins) :
                /\ coins[i].coin = "USDT"
                /\ \A j \in 1..(i - 1) : coins[j].coin # "USDT"
    IN  coins[k]

\* the balance written in a USDT entry: a missing one reads as 0, a text
\* that is no number as -1
C16_Figure(entry) ==
    IF entry.walletBalance = None THEN 0
    ELSE IF entry.walletBalance = Some("12.5") THEN Price(12, 500)
    ELSE IF entry.walletBalance = Some("0") THEN 0
    ELSE -1

\* the lookup for one category succeeds and has a USDT balance: the call
\* returns, its first account lists USDT, and the balance is a number
C16_Yields(answer) ==
    /\ answer.raises = "none"
    /\ answer.list # <<>>
    /\ \E i \in 1..Len(answer.list[1]) : answer.list[1][i].coin = "USDT"
    /\ C16_Figure(C16_Usdt(answer)) >= 0

\* C16: the categories are asked in the order UNIFIED, SPOT, CONTRACT; the
\* result is the USDT balance of the first category whose lookup succeeds
\* with a USDT balance, and no later category is asked; a failing or empty
\* lookup moves on; the result is absent without stored credentials (nothing
\* is asked) or when no category yields a balance; nothing is raised.
C16_OrderedLookup ==
    bal_res.exc # "pending"
    => /\ bal_res.exc = "none"
       /\ bal_user = None
            => (bal_res.result = None /\ bal_res.queried = <<>>)
       /\ bal_user # None
            => LET good == {i \in 1..Len(C16_Order) :
                              C16_Yields(bal_wallet[C16_Order[i]])}
                   first == CHOOSE i \in good : \A j \in good : i <= j
               IN  IF good = {}
                   THEN /\ bal_res.result = None
                        /\ bal_res.queried = C16_Order
                   ELSE /\ bal_res.result =
                            Some(C16_Figure(C16_Usdt(bal_wallet[C16_Order[first]])))
                        /\ bal_res.queried = SubSeq(C16_Order, 1, first)

\* UNIFIED raises, SPOT holds 12.5 USDT, CONTRACT holds a USDT balance too:
\* the result is SPOT's and CONTRACT was not asked
C16_Witness ==
    /\ bal_user # None
    /\ bal_wallet["UNIFIED"].raises = "FailedRequestError"
    /\ C16_Yields(bal_wallet["SPOT"])
    /\ C16_Yields(bal_wallet["CONTRACT"])
    /\ C16_Figure(C16_Usdt(bal_wallet["CONTRACT"])) = 0
    /\ bal_res.result = Some(Price(12, 500))
    /\ bal_res.queried = <<"UNIFIED", "SPOT">>

\* every category fails or lacks USDT: all three were asked, nothing found
C16_WitnessNone ==
    /\ bal_user # None
    /\ bal_wallet["UNIFIED"].raises = "Exception"
    /\ bal_wallet["SPOT"].raises = "none"
    /\ bal_wallet["SPOT"].list = <<>>
    /\ bal_wallet["CONTRACT"].raises = "none"
    /\ bal_wallet["CONTRACT"].list # <<>>
    /\ bal_res.exc = "none"
    /\ bal_res.result = None
    /\ bal_res.queried = <<"UNIFIED", "SPOT", "CONTRACT">>

----------------------------------------------------------------------------
(* Statements about the access list and the private commands, under SpecAcl *)

\* the role the table acl holds for a user before the step, "" without a row
RoleOf(uid) == IF acl[uid] = None THEN "" ELSE acl[uid][1]

\* the step handled a command that was refused and did nothing else
OnlyRefused ==
    /\ cmd' = Handled(cmd'.name, cmd'.uid, "refused")
    /\ acl' = acl
    /\ users' = users
    /\ varsJob' = varsJob

\* C17: after db_init at any process start, whatever /allow and /deny
\* commands and restarts came before, the role of the owner (TG_CHAT_ID) is
\* 'admin'.
C17_OwnerAdmin ==
    cmd.name = "main" => acl[TG_CHAT_ID] = Some("admin")

C19_Step ==
    /\ (cmd'.name \in {"allow", "deny"} /\ RoleOf(cmd'.uid) # "admin")
        => OnlyRefused
    /\ (cmd'.name = "link" /\ RoleOf(cmd'.uid) \notin {"user", "admin"})
        => OnlyRefused

\* C19: /allow and /deny from a sender whose role is not 'admin' leave the
\* table acl as it was, /link from a sender whose role is neither 'user'
\* nor 'admin' leaves the table users as it was; the one effect is the
\* refusal reply.
C19_RefusedChangesNothing == [][C19_Step]_vars

\* a user with the role 'user' and stored keys asked to /deny the owner and
\* was refused
C19_Witness ==
    /\ cmd = Handled("deny", 2, "refused")
    /\ acl[2] = Some("user")
    /\ acl[TG_CHAT_ID] = Some("admin")
    /\ users[2] # None

\* a user without a row in acl sent /link and was refused: no keys stored
C19_WitnessLink ==
    /\ cmd = Handled("link", 2, "refused")
    /\ acl[2] = None
    /\ users[2] = None

C20_Step ==
    cmd'.name = "balance"
    => \/ /\ RoleOf(cmd'.uid) \in {"user", "admin"}
          /\ cmd'.reply \in {"balance", "no keys"}
          /\ cmd'.reply = "balance" <=> cmd'.figure # None
          /\ users[cmd'.uid] = None => cmd'.queried = <<>>
       \/ /\ RoleOf(cmd'.uid) \notin {"user", "admin"}
          /\ OnlyRefused
          /\ cmd'.queried = <<>>
          /\ cmd'.figure = None

\* C20: /balance asks the exchange and replies with a balance only for a
\* sender whose role is 'user' or 'admin' when the command is handled; a
\* sender whose row was removed by /deny after /link gets the refusal, and
\* the exchange is not asked with the stored keys.
C20_BalanceNeedsRole == [][C20_Step]_vars

\* the user linked keys, was removed from acl, and asked for the balance
C20_Witness ==
    /\ cmd = Handled("balance", 2, "refused")
    /\ users[2] # None
    /\ acl[2] = None

\* a user with the role 'user' and stored keys was told a balance
C20_WitnessBalance ==
    /\ cmd.name = "balance"
    /\ cmd.uid = 2
    /\ cmd.reply = "balance"
    /\ cmd.figure = Some(Price(12, 500))
    /\ cmd.queried = <<"UNIFIED", "SPOT">>
    /\ acl[2] = Some("user")

----------------------------------------------------------------------------
(* C13: a zero reference value in cluster_levels *)

\* C13: a zero reference value ends the operation in an error outcome that
\* is reported for that operation, not in an unhandled arithmetic fault. In
\* a tick the except clause of alert_job takes the fault (AlertExcept); for
\* a query the statement is that no ZeroDivisionError leaves the handler.
C13_ZeroReference ==
    cmd.name \in {"now", "peaks"} => cmd.exc # "ZeroDivisionError"

----------------------------------------------------------------------------
(* C14: who writes _last_alert_signature *)

\* this step is a command handler's: the dispatcher recorded a new command
C14_CommandStep == cmd' # cmd /\ cmd'.name # "main"

\* this step is the store at line 394 of the running tick
C14_TickStores ==
    /\ cmd' = cmd
    /\ \E t \in Timer :
        /\ job[t].pc = "store"
        /\ last_alert_signature' = job[t].signature

\* this step is the start of a new process, whose global is None (line 366)
C14_ProcessStarts == cmd'.name = "main" /\ last_alert_signature' = None

C14_Step ==
    /\ C14_CommandStep => UNCHANGED varsJob
    /\ last_alert_signature' # last_alert_signature =>
            C14_TickStores \/ C14_ProcessStarts

\* C14: in any interleaving of ticks with /now, /peaks and the other
\* commands, no command handler changes the stored signature (nor the run of
\* alert_job, its last outcome or the chat's last alert); within a process
\* the stored signature changes only in the tick's store.
C14_OnlyTickStores == [][C14_Step]_vars

\* /now, handled after a tick that emitted, showed levels other than the
\* stored ones; the next tick, on the stored levels again, was suppressed:
\* the query did not re-arm the alert
C14_Witness ==
    /\ cmd.name = "now"
    /\ cmd.exc = "none"
    /\ cmd.after = "emitted"
    /\ ~SameSignature(Signature(cmd.levels[1], cmd.levels[2]),
                      last_alert_signature)
    /\ last_run.outcome = "suppressed"
    /\ last_run.signature = last_alert_signature

\* /peaks, handled after a suppressed tick, showed levels other than the
\* stored ones; a tick on the levels the query had shown then emitted, and
\* stored them: the query did not suppress the alert
C14_WitnessNotSuppressed ==
    /\ cmd.name = "peaks"
    /\ cmd.exc = "none"
    /\ cmd.after = "suppressed"
    /\ last_run.outcome = "emitted"
    /\ last_run.signature = Signature(cmd.levels[1], cmd.levels[2])
    /\ last_alert_signature = last_run.signature

----------------------------------------------------------------------------
(* C15: two runs of alert_job at once *)

\* run u has compared its candidate and found it new, and has not stored it
C15_Between(u) == job[u].pc \in {"send", "store"}

\* run t starts now, builds the candidate of run u and finds it new as well
C15_SameCandidate(t, u) ==
    /\ AlertResolveFrom(t, BotResolutions)
    /\ job'[t].pc = "send"
    /\ job'[t].signature = job[u].signature
    /\ job'[t].before = last_alert_signature

\* C15: nothing excludes a second run of alert_job between the compare and
\* the store of a first one: while a run is there and its candidate still
\* differs from the stored signature, any idle run can start, build the
\* same candidate, compare it with the same stored signature and go on to
\* emit it.
C15_NoExclusion ==
    \A u \in Runs : \A t \in Runs \ {u} :
        (/\ C15_Between(u)
         /\ job[t].pc = "idle"
         /\ ~SameSignature(job[u].signature, last_alert_signature))
            => ENABLED C15_SameCandidate(t, u)

\* double emission: both runs compared the same candidate with the same
\* old signature, both sent the alert, and neither has stored yet
C15_Witness ==
    /\ job[1].pc = "store"
    /\ job[2].pc = "store"
    /\ job[1].signature = job[2].signature
    /\ job[1].before = job[2].before
    /\ job[1].before = last_alert_signature
    /\ job[1].calls = << <<"alert", TRUE>> >>
    /\ job[2].calls = << <<"alert", TRUE>> >>

====
